---- MODULE Spec2Model ----
(***************************************************************************)
(* Model of shebangMarkdownIDE (src/src/shebangMarkdownIDE/app.py): the    *)
(* markdown linter MarkdownIDE._lint_markdown and the tab / editor         *)
(* bookkeeping of MarkdownIDE that stores and shows its reports.           *)
(*                                                                         *)
(* A text is a sequence of one-character strings; NL is the newline.       *)
(* A lint issue is the dict the code appends: line, type and message; the  *)
(* message is the f-string of the code, kept as its template and the       *)
(* values substituted into it.                                             *)
(***************************************************************************)
EXTENDS Integers, Sequences, FiniteSets, TLC

NL == "\n"

(***************************************************************************)
(* str helpers used by the linter.                                         *)
(***************************************************************************)

\* text.split('\n'): always at least one (possibly empty) line; the text is
\* cut at its first newline and the rest is split in the same way
RECURSIVE Split(_)
Split(s) ==
    LET k == IF \E j \in 1..Len(s) : s[j] = NL
             THEN CHOOSE j \in 1..Len(s) : s[j] = NL /\ \A h \in 1..(j - 1) : s[h] # NL
             ELSE 0
    IN  IF k = 0 THEN <<s>>
        ELSE <<SubSeq(s, 1, k - 1)>> \o Split(SubSeq(s, k + 1, Len(s)))

IsSpace(c) == c = " "

RECURSIVE LStrip(_)
LStrip(s) == IF s # <<>> /\ IsSpace(Head(s)) THEN LStrip(Tail(s)) ELSE s

RECURSIVE RStrip(_)
RStrip(s) ==
    IF s # <<>> /\ IsSpace(s[Len(s)]) THEN RStrip(SubSeq(s, 1, Len(s) - 1)) ELSE s

\* str.strip()
Strip(s) == RStrip(LStrip(s))

\* line.lstrip('#')
RECURSIVE LStripHash(_)
LStripHash(s) == IF s # <<>> /\ Head(s) = "#" THEN LStripHash(Tail(s)) ELSE s

\* str.startswith(prefix)
StartsWith(s, p) == Len(s) >= Len(p) /\ SubSeq(s, 1, Len(p)) = p

\* c in line
Contains(s, c) == \E k \in 1..Len(s) : s[k] = c

\* index of the first c at or after position from, 0 when there is none
FindChar(s, c, from) ==
    IF \E k \in from..Len(s) : s[k] = c
    THEN CHOOSE k \in from..Len(s) : s[k] = c /\ \A j \in from..(k - 1) : s[j] # c
    ELSE 0

(***************************************************************************)
(* The two regular expressions.  Both have the shape                       *)
(*     !? \[ ([^\]]{minText,}) \] \( ([^)]{minUrl,}) \)                     *)
(* A class that excludes the closing delimiter, followed by that           *)
(* delimiter, can only end at the delimiter's first occurrence.            *)
(***************************************************************************)

\* r'\[([^\]]+)\]\(([^)]+)\)'
link_pattern == [bang |-> FALSE, minText |-> 1, minUrl |-> 1]

\* r'!\[([^\]]*)\]\(([^)]+)\)'
img_pattern == [bang |-> TRUE, minText |-> 0, minUrl |-> 1]

NoMatch == [start |-> 0, end |-> 0, g0 |-> <<>>, g1 |-> <<>>, g2 |-> <<>>]

\* the match of pattern p that starts exactly at position s, or NoMatch
MatchAt(p, line, s) ==
    LET o == IF p.bang THEN s + 1 ELSE s
        j == FindChar(line, "]", o + 1)
        k == IF j = 0 THEN 0 ELSE FindChar(line, ")", j + 2)
    IN  IF /\ s <= Len(line)
           /\ (p.bang => line[s] = "!")
           /\ o <= Len(line)
           /\ line[o] = "["
           /\ j # 0
           /\ j - (o + 1) >= p.minText
           /\ j + 1 <= Len(line)
           /\ line[j + 1] = "("
           /\ k # 0
           /\ k - (j + 2) >= p.minUrl
        THEN [start |-> s, end |-> k,
              g0 |-> SubSeq(line, s, k),
              g1 |-> SubSeq(line, o + 1, j - 1),
              g2 |-> SubSeq(line, j + 2, k - 1)]
        ELSE NoMatch

\* re.finditer(p, line): leftmost, non-overlapping matches, left to right
RECURSIVE FindIterFrom(_, _, _)
FindIterFrom(p, line, s) ==
    IF s > Len(line) THEN <<>>
    ELSE LET m == MatchAt(p, line, s)
         IN  IF m.start # 0 THEN <<m>> \o FindIterFrom(p, line, m.end + 1)
             ELSE FindIterFrom(p, line, s + 1)

FindIter(p, line) == FindIterFrom(p, line, 1)

(***************************************************************************)
(* The issues _lint_markdown appends.                                      *)
(***************************************************************************)

HeaderSpacingIssue(i) ==
    [line |-> i + 1, type |-> "warning",
     message |-> [fmt |-> "Consider adding blank line after header at line {i}",
                  i |-> i]]

HeadingLevelIssue(level, i) ==
    [line |-> i, type |-> "error",
     message |-> [fmt |-> "Invalid heading level {level} at line {i} (max is 6)",
                  level |-> level, i |-> i]]

EmptyLinkIssue(i, g0) ==
    [line |-> i, type |-> "error",
     message |-> [fmt |-> "Empty link URL at line {i}: {match.group(0)}",
                  i |-> i, match |-> g0]]

ImageAltIssue(i) ==
    [line |-> i, type |-> "warning",
     message |-> [fmt |-> "Image without alt text at line {i} (accessibility issue)",
                  i |-> i]]

TableRowIssue(i) ==
    [line |-> i, type |-> "warning",
     message |-> [fmt |-> "Table row at line {i} should start with |",
                  i |-> i]]

CodeBlockSpacingIssue(i) ==
    [line |-> i + 1, type |-> "warning",
     message |-> [fmt |-> "Consider adding blank line after code block at line {i}",
                  i |-> i]]

(***************************************************************************)
(* First loop of _lint_markdown: the five checks made on line i, in the    *)
(* order of the loop body.                                                 *)
(***************************************************************************)

\* if next_line and not next_line.strip() == "": the line has visible content
NonBlank(line) == line # <<>> /\ Strip(line) # <<>>

\* CheckHeaderSpacing without the test that the next line is no header
CheckHeaderSpacingAnyNext(lines, i) ==
    IF i < Len(lines) /\ StartsWith(lines[i], <<"#">>)
    THEN IF NonBlank(lines[i + 1]) THEN <<HeaderSpacingIssue(i)>> ELSE <<>>
    ELSE <<>>

\* headers without blank line after
CheckHeaderSpacing(lines, i) ==
    IF i < Len(lines) /\ StartsWith(lines[i], <<"#">>)
    THEN LET next_line == lines[i + 1]
         IN  IF NonBlank(next_line) /\ ~StartsWith(next_line, <<"#">>)
             THEN <<HeaderSpacingIssue(i)>>
             ELSE <<>>
    ELSE <<>>

\* level = len(line) - len(line.lstrip('#'))
HeadingLevel(line) == Len(line) - Len(LStripHash(line))

\* CheckHeadingLevel without the exemption of the first three lines
CheckHeadingLevelAllLines(lines, i) ==
    IF StartsWith(lines[i], <<"#">>) /\ HeadingLevel(lines[i]) > 6
    THEN <<HeadingLevelIssue(HeadingLevel(lines[i]), i)>>
    ELSE <<>>

\* heading levels, skipping the first few lines
CheckHeadingLevel(lines, i) ==
    IF StartsWith(lines[i], <<"#">>) /\ i > 3
    THEN LET level == HeadingLevel(lines[i])
         IN  IF level > 6 THEN <<HeadingLevelIssue(level, i)>> ELSE <<>>
    ELSE <<>>

\* one issue per link match whose url is blank, in match order
RECURSIVE EmptyLinkIssues(_, _)
EmptyLinkIssues(matches, i) ==
    IF matches = <<>> THEN <<>>
    ELSE (IF Strip(Head(matches).g2) = <<>>
          THEN <<EmptyLinkIssue(i, Head(matches).g0)>>
          ELSE <<>>) \o EmptyLinkIssues(Tail(matches), i)

\* broken links [text](url)
CheckLinks(lines, i) == EmptyLinkIssues(FindIter(link_pattern, lines[i]), i)

\* one issue per image match whose alt text is empty or blank, in match order
RECURSIVE ImageAltIssues(_, _)
ImageAltIssues(matches, i) ==
    IF matches = <<>> THEN <<>>
    ELSE (IF Head(matches).g1 = <<>> \/ Strip(Head(matches).g1) = <<>>
          THEN <<ImageAltIssue(i)>>
          ELSE <<>>) \o ImageAltIssues(Tail(matches), i)

\* CheckImages that tests the alt text for emptiness without stripping it
CheckImagesNoStrip(lines, i) ==
    [k \in 1..Len(SelectSeq(FindIter(img_pattern, lines[i]),
                            LAMBDA m : m.g1 = <<>>)) |-> ImageAltIssue(i)]

\* images without alt text
CheckImages(lines, i) == ImageAltIssues(FindIter(img_pattern, lines[i]), i)

\* CheckTableRow that tests the start of the line without stripping it
CheckTableRowNoStrip(lines, i) ==
    IF /\ Contains(lines[i], "|")
       /\ ~StartsWith(lines[i], <<"|">>)
       /\ i > 1
       /\ Contains(lines[i - 1], "|")
    THEN <<TableRowIssue(i)>>
    ELSE <<>>

\* table row that doesn't start with |
CheckTableRow(lines, i) ==
    IF Contains(lines[i], "|") /\ ~StartsWith(Strip(lines[i]), <<"|">>)
    THEN IF (IF i > 1 THEN i > 1 /\ Contains(lines[i - 1], "|") ELSE FALSE)
         THEN <<TableRowIssue(i)>>
         ELSE <<>>
    ELSE <<>>

\* the body of the first loop for line i
LineIssues(lines, i) ==
    CheckHeaderSpacing(lines, i) \o CheckHeadingLevel(lines, i)
        \o CheckLinks(lines, i) \o CheckImages(lines, i) \o CheckTableRow(lines, i)

\* the first loop run from the last line up
RECURSIVE FirstLoopBottomUp(_, _)
FirstLoopBottomUp(lines, i) ==
    IF i > Len(lines) THEN <<>>
    ELSE FirstLoopBottomUp(lines, i + 1) \o LineIssues(lines, i)

\* for i, line in enumerate(lines, 1): first loop, from line i on
RECURSIVE FirstLoop(_, _)
FirstLoop(lines, i) ==
    IF i > Len(lines) THEN <<>>
    ELSE LineIssues(lines, i) \o FirstLoop(lines, i + 1)

(***************************************************************************)
(* Second loop: blank lines after code blocks.                             *)
(***************************************************************************)

\* the backquote character (written as a name: the lexer reserves the character)
Backquote == "BACKQUOTE"

\* '```'
Fence == <<Backquote, Backquote, Backquote>>

IsFenceLine(line) == StartsWith(Strip(line), Fence)

\* CheckCodeBlock that reports after opening fences as well
CheckCodeBlockAnyFence(lines, i, in_code_block) ==
    IF i < Len(lines) /\ NonBlank(lines[i + 1])
    THEN <<CodeBlockSpacingIssue(i)>>
    ELSE <<>>

\* CheckCodeBlock that takes the line after the last line to have content
CheckCodeBlockPastEnd(lines, i, in_code_block) ==
    IF ~in_code_block
    THEN IF i = Len(lines) \/ NonBlank(lines[i + 1])
         THEN <<CodeBlockSpacingIssue(i)>>
         ELSE <<>>
    ELSE <<>>

\* what the loop body appends at line i; in_code_block is the flag after
\* the toggle
CheckCodeBlock(lines, i, in_code_block) ==
    IF ~in_code_block /\ i < Len(lines)
    THEN IF NonBlank(lines[i + 1]) THEN <<CodeBlockSpacingIssue(i)>> ELSE <<>>
    ELSE <<>>

\* second loop from line i on, entered with the flag in_code_block
RECURSIVE SecondLoop(_, _, _)
SecondLoop(lines, i, in_code_block) ==
    IF i > Len(lines) THEN <<>>
    ELSE IF IsFenceLine(lines[i])
         THEN CheckCodeBlock(lines, i, ~in_code_block)
                  \o SecondLoop(lines, i + 1, ~in_code_block)
         ELSE SecondLoop(lines, i + 1, in_code_block)

\* _lint_markdown with the code-block loop run before the per-line loop
LintMarkdownCodeBlocksFirst(text) ==
    SecondLoop(Split(text), 1, FALSE) \o FirstLoop(Split(text), 1)

\* _lint_markdown with a finding of its own for the empty text
LintMarkdownEmptyDocument(text) ==
    IF text = <<>>
    THEN <<[line |-> 1, type |-> "warning",
            message |-> [fmt |-> "Document is empty", i |-> 1]]>>
    ELSE FirstLoop(Split(text), 1) \o SecondLoop(Split(text), 1, FALSE)

\* the list `issues` that _lint_markdown builds for text
LintMarkdown(text) ==
    LET lines == Split(text)
    IN  FirstLoop(lines, 1) \o SecondLoop(lines, 1, FALSE)

(***************************************************************************)
(* Bounds and inputs.                                                      *)
(***************************************************************************)

\* most blank lines put in front of the lines of a linted text
MaxPad == 3

\* most lines that follow the blank lines of a linted text
MaxBody == 3

\* most tabs open at once, the reference tab included
MaxTabs == 2

\* most characters of a text made of the characters of Alphabet
MaxChars == 4

\* most listings of lint issues put into the command output
MaxListings == 1

\* the lines a linted text is made of
LineVocabulary ==
    { <<>>,
      <<" ">>,
      <<"a">>,
      <<"#", "#", "#", "#", "#", "#">>,
      <<"#", "#", "#", "#", "#", "#", "#", "!", "[", " ", "]", "(", " ", ")", "|">>,
      <<" ", Backquote, Backquote, Backquote>>,
      <<"[", "a", "]", "(", ")">>,
      <<"!", "[", "]", "(", "a", ")">>,
      <<"!", "[", "a", "]", "(", "a", ")">>,
      <<"a", "|", "a">>,
      <<" ", "|", "a">> }

\* '\n'.join(lines), for a non-empty list of lines
RECURSIVE Join(_)
Join(ls) ==
    IF Len(ls) = 1 THEN ls[1] ELSE ls[1] \o <<NL>> \o Join(Tail(ls))

BlankLines(k) == [j \in 1..k |-> <<>>]

\* the texts the linter is run on: up to MaxPad empty lines, then 1..MaxBody
\* lines of the vocabulary
Texts ==
    { Join(BlankLines(k) \o body) :
        k \in 0..MaxPad,
        body \in UNION { [1..n -> LineVocabulary] : n \in 1..MaxBody } }

\* the texts typed and stored in the editor model
DocTexts ==
    { <<>>,
      Join(<< <<"#", " ", "a">>, <<"a">> >>) }

(***************************************************************************)
(* State of MarkdownIDE.                                                   *)
(*                                                                         *)
(* Widget ids: the id f"editor_{n}" / f"pane_{n}" is the number n >= 1;    *)
(* "markdown_reference_editor" / "markdown_reference_pane" is 0.           *)
(***************************************************************************)

VARIABLES
    panes,         \* self.tabs: the TabPanes in DOM order, each with its TextArea
    active,        \* self.tabs.active_pane as an index into panes, 0 for None
    editor_files,  \* self.editor_files: dict in insertion order, [k, v] entries
    modified,      \* self.modified
    lint_issues,   \* self.lint_issues
    status,        \* text of the #status-bar label
    disk,          \* the files that exist, by resolved path, with their content
    command_output,       \* self._command_output_text, as the list of the
                          \* messages appended by on_mount, by the lint
                          \* listing and by the command terminal; the notices
                          \* of the file handlers ("Opened ...", "Saved ...",
                          \* "Closed tab ...") are left out of it
    current_working_dir,  \* self.current_working_dir
    directories    \* the directories that exist, by resolved path

vars ==
    <<panes, active, editor_files, modified, lint_issues, status, disk,
      command_output, current_working_dir, directories>>

RefId == 0

\* a path value of editor_files that is None
None == [none |-> TRUE]

\* Path("untitled.md").resolve()
UntitledPath == [dir |-> "cwd", name |-> "untitled.md"]

(***************************************************************************)
(* Paths are the lists of their components below "/", each component the   *)
(* tuple of its characters; <<>> is "/" itself.  The file system has the   *)
(* directories /r (the root path), /r/a, /r/a/b and /o, the file /r/f and  *)
(* the symbolic link /r/l to /o; commands can remove and create /r/a and   *)
(* /r/a/b.                                                                 *)
(***************************************************************************)
Sep == "/"

Dot == <<".">>

DotDot == <<".", ".">>

\* self.root_path, as the list of its components below "/"
root_path == << <<"r">> >>

OutsidePath == << <<"o">> >>

\* the directories that exist whatever the commands do
FixedDirectories == {<<>>, root_path, OutsidePath}

\* the directories at the start
Directories ==
    FixedDirectories \cup {root_path \o << <<"a">> >>, root_path \o << <<"a">>, <<"b">> >>}

\* the sets of directories a command can leave behind
DirectoryTrees ==
    {FixedDirectories,
     FixedDirectories \cup {root_path \o << <<"a">> >>},
     Directories}

Files == {root_path \o << <<"f">> >>}

\* the symbolic links, each with the resolved path it leads to
Links == [p \in {root_path \o << <<"l">> >>} |-> OutsidePath]

\* s.split(c)
RECURSIVE SplitOn(_, _)
SplitOn(s, c) ==
    LET k == IF \E j \in 1..Len(s) : s[j] = c
             THEN CHOOSE j \in 1..Len(s) : s[j] = c /\ \A h \in 1..(j - 1) : s[h] # c
             ELSE 0
    IN  IF k = 0 THEN <<s>>
        ELSE <<SubSeq(s, 1, k - 1)>> \o SplitOn(SubSeq(s, k + 1, Len(s)), c)

\* the components of the path written as s: "" and "." are dropped, ".."
\* is kept
PathParts(s) == SelectSeq(SplitOn(s, Sep), LAMBDA n : n # <<>> /\ n # Dot)

\* dir / s: an absolute s replaces dir
JoinPath(dir, s) ==
    IF s # <<>> /\ s[1] = Sep THEN PathParts(s) ELSE dir \o PathParts(s)

\* path.parent
Parent(p) == IF p = <<>> THEN <<>> ELSE SubSeq(p, 1, Len(p) - 1)

\* path.parents
Parents(p) == {SubSeq(p, 1, k) : k \in 0..(Len(p) - 1)}

\* path.resolve(): the components are walked from "/", ".." steps back to
\* the parent and a symbolic link is replaced by what it leads to; a
\* component that does not exist is kept as it is written
RECURSIVE Walk(_, _)
Walk(done, rest) ==
    IF rest = <<>> THEN done
    ELSE IF Head(rest) = DotDot THEN Walk(Parent(done), Tail(rest))
    ELSE LET q == Append(done, Head(rest))
         IN  Walk(IF q \in DOMAIN Links THEN Links[q] ELSE q, Tail(rest))

Resolve(p) == Walk(<<>>, p)

\* path.exists() and path.is_dir() of a resolved path
IsExistingDir(dirs, p) == (p \in dirs \cup Files) /\ p \in dirs

\* the message on_mount puts into the command output
StartedMessage ==
    [fmt |-> "Markdown IDE started. Use command terminal to run shell commands."]

\* the resolved paths files are opened from and saved to
Paths == {UntitledPath}

\* the text of the reference tab, shortened to a header and a line of text
markdown_cheat_sheet == Join(<< <<"#", " ", "a">>, <<"a">> >>)

\* dict with insertion order: keys, get, d[k] = v, pop
Keys(d) == {d[j].k : j \in 1..Len(d)}

Get(d, k) ==
    IF k \in Keys(d) THEN d[CHOOSE j \in 1..Len(d) : d[j].k = k].v ELSE None

Put(d, k, v) ==
    IF k \in Keys(d)
    THEN [j \in 1..Len(d) |-> IF d[j].k = k THEN [k |-> k, v |-> v] ELSE d[j]]
    ELSE Append(d, [k |-> k, v |-> v])

Pop(d, k) == SelectSeq(d, LAMBDA e : e.k # k)

\* f[k] = v on a dict whose order is never read
Set(f, k, v) == [x \in DOMAIN f \cup {k} |-> IF x = k THEN v ELSE f[x]]

Del(f, k) == [x \in DOMAIN f \ {k} |-> f[x]]

\* _active_editor_id(), with None as -1
ActiveEditorId(ps, a) == IF a = 0 THEN -1 ELSE ps[a].editor_id

StatusFor(files, mod, editor_id) ==
    IF editor_id = -1 THEN [fmt |-> "No file open."]
    ELSE LET path == Get(files, editor_id)
         IN  [fmt |-> "{file_name}{star}  |  Ctrl+N: New ...",
              file_name |-> IF path = None THEN "untitled.md" ELSE path.name,
              star |-> IF editor_id \in DOMAIN mod /\ mod[editor_id] THEN "*" ELSE ""]

RECURSIVE CountType(_, _)
CountType(issues, type) ==
    IF issues = <<>> THEN 0
    ELSE (IF Head(issues).type = type THEN 1 ELSE 0) + CountType(Tail(issues), type)

\* LintStatus that takes every issue that is no error to be a warning
LintStatusRest(prev, issues) ==
    IF issues # <<>>
    THEN LET errors == CountType(issues, "error")
         IN  IF errors > 0
             THEN [fmt |-> "Lint: {errors} error(s), {warnings} warning(s) | Press Ctrl+L for details",
                   errors |-> errors, warnings |-> Len(issues)]
             ELSE [fmt |-> "Lint: {warnings} warning(s) | Press Ctrl+L for details",
                   warnings |-> Len(issues)]
    ELSE prev

\* the status text after _lint_markdown, given the text before it
LintStatus(prev, issues) ==
    IF issues # <<>>
    THEN LET errors == CountType(issues, "error")
             warnings == CountType(issues, "warning")
         IN  IF errors > 0
             THEN [fmt |-> "Lint: {errors} error(s), {warnings} warning(s) | Press Ctrl+L for details",
                   errors |-> errors, warnings |-> warnings]
             ELSE [fmt |-> "Lint: {warnings} warning(s) | Press Ctrl+L for details",
                   warnings |-> warnings]
    ELSE prev

\* a store that extends the list already stored for editor_id
StoreIssuesAppend(stored, editor_id, issues) ==
    [x \in DOMAIN stored \cup {editor_id} |->
        IF x # editor_id THEN stored[x]
        ELSE IF x \in DOMAIN stored THEN stored[x] \o issues ELSE issues]

\* a store that drops the lists of the other editors
StoreIssuesOnly(stored, editor_id, issues) == [x \in {editor_id} |-> issues]

\* a store that keeps a list already stored for editor_id
StoreIssuesOnce(stored, editor_id, issues) ==
    IF editor_id \in DOMAIN stored THEN stored ELSE Set(stored, editor_id, issues)

\* self.lint_issues[editor_id] = issues
StoreIssues(stored, editor_id, issues) == Set(stored, editor_id, issues)

ReferencePane ==
    [pane_id |-> RefId, editor_id |-> RefId, text |-> markdown_cheat_sheet,
     read_only |-> TRUE]

\* the TabPane open_file and create_new_file add (its title is not modelled)
EditorPane(n, text) ==
    [pane_id |-> n, editor_id |-> n, text |-> text, read_only |-> FALSE]

\* __init__, compose and on_mount without a file on the command line
Init ==
    /\ panes = <<ReferencePane>>
    /\ active = 1
    /\ editor_files = <<>>
    /\ modified = <<>>
    /\ lint_issues = <<>>
    /\ status = [fmt |-> "Markdown IDE ready. ..."]
    /\ disk = [p \in {UntitledPath} |-> Join(<< <<"#", " ", "a">>, <<"a">> >>)]
    /\ command_output = <<StartedMessage>>
    /\ current_working_dir = root_path
    /\ directories = Directories

(***************************************************************************)
(* Handlers.                                                               *)
(***************************************************************************)

\* index of the first pane whose TextArea has id editor_id, 0 when none
PaneOf(ps, editor_id) ==
    IF \E j \in 1..Len(ps) : ps[j].editor_id = editor_id
    THEN CHOOSE j \in 1..Len(ps) :
            /\ ps[j].editor_id = editor_id
            /\ \A h \in 1..(j - 1) : ps[h].editor_id # editor_id
    ELSE 0

\* open_file, "Check if already open": the pane to focus, 0 when none
AlreadyOpenPane(path) ==
    LET hits == SelectSeq(editor_files,
                          LAMBDA e : e.v = path /\ PaneOf(panes, e.k) # 0)
    IN  IF hits = <<>> THEN 0 ELSE PaneOf(panes, hits[1].k)

\* open_file(path) for a path that is a file; ok: read_text succeeds
open_file(path, ok) ==
    /\ path \in DOMAIN disk
    /\ IF AlreadyOpenPane(path) # 0
       THEN /\ ok
            /\ active' = AlreadyOpenPane(path)
            /\ status' = StatusFor(editor_files, modified,
                                   panes[AlreadyOpenPane(path)].editor_id)
            /\ UNCHANGED <<panes, editor_files, modified, lint_issues, disk,
                         command_output, current_working_dir, directories>>
       ELSE IF ~ok
       THEN /\ status' = [fmt |-> "Failed to open {path.name}", name |-> path.name]
            /\ UNCHANGED <<panes, active, editor_files, modified, lint_issues, disk,
                         command_output, current_working_dir, directories>>
       ELSE LET n == Len(editor_files) + 1
            IN  /\ Len(panes) < MaxTabs
                /\ panes' = Append(panes, EditorPane(n, disk[path]))
                /\ active' = Len(panes) + 1
                /\ editor_files' = Put(editor_files, n, path)
                /\ modified' = Set(modified, n, FALSE)
                /\ status' = StatusFor(editor_files', modified', n)
                /\ UNCHANGED <<lint_issues, disk, command_output, current_working_dir, directories>>

\* create_new_file()
create_new_file ==
    LET n == Len(editor_files) + 1
    IN  /\ Len(panes) < MaxTabs
        /\ panes' = Append(panes, EditorPane(n, <<>>))
        /\ active' = Len(panes) + 1
        /\ editor_files' = Put(editor_files, n, None)
        /\ modified' = Set(modified, n, TRUE)
        /\ lint_issues' = StoreIssues(lint_issues, n, LintMarkdown(<<>>))
        /\ status' = LintStatus(StatusFor(editor_files', modified', n),
                                LintMarkdown(<<>>))
        /\ UNCHANGED <<disk, command_output, current_working_dir, directories>>

\* save_current(); ok: write_text succeeds
save_current(ok) ==
    IF active = 0
    THEN /\ ok
         /\ status' = [fmt |-> "No file to save."]
         /\ UNCHANGED <<panes, active, editor_files, modified, lint_issues, disk,
                         command_output, current_working_dir, directories>>
    ELSE LET editor_id == panes[active].editor_id
             old == Get(editor_files, editor_id)
             path == IF old = None THEN UntitledPath ELSE old
         IN  /\ editor_files' = IF old = None
                                THEN Put(editor_files, editor_id, path)
                                ELSE editor_files
             /\ IF ok
                THEN /\ disk' = Set(disk, path, panes[active].text)
                     /\ modified' = Set(modified, editor_id, FALSE)
                     /\ status' = StatusFor(editor_files', modified', editor_id)
                ELSE /\ status' = [fmt |-> "Failed to save {path.name}",
                                   name |-> path.name]
                     /\ UNCHANGED <<modified, disk>>
             /\ UNCHANGED <<panes, active, lint_issues, command_output, current_working_dir, directories>>

\* ps without its j-th element
RemoveAt(ps, j) == SubSeq(ps, 1, j - 1) \o SubSeq(ps, j + 1, Len(ps))

\* close_current_tab(); next: the pane the tab strip activates afterwards
close_current_tab(next) ==
    /\ active # 0
    /\ panes' = RemoveAt(panes, active)
    /\ next \in (IF Len(panes) = 1 THEN {0} ELSE 1..(Len(panes) - 1))
    /\ active' = next
    /\ editor_files' = Pop(editor_files, panes[active].editor_id)
    /\ modified' = Del(modified, panes[active].editor_id)
    /\ status' = StatusFor(editor_files', modified', ActiveEditorId(panes', active'))
    /\ UNCHANGED <<lint_issues, disk, command_output, current_working_dir, directories>>

\* the user selects tab a: on_tabbed_content_tab_activated
on_tabbed_content_tab_activated(a) ==
    /\ a \in 1..Len(panes)
    /\ a # active
    /\ active' = a
    /\ status' = StatusFor(editor_files, modified, ActiveEditorId(panes, a))
    /\ UNCHANGED <<panes, editor_files, modified, lint_issues, disk,
                         command_output, current_working_dir, directories>>

\* action_show_markdown_reference()
action_show_markdown_reference ==
    /\ IF \E j \in 1..Len(panes) : panes[j].pane_id = RefId
       THEN /\ active' = CHOOSE j \in 1..Len(panes) :
                            /\ panes[j].pane_id = RefId
                            /\ \A h \in 1..(j - 1) : panes[h].pane_id # RefId
            /\ active' # active
            /\ UNCHANGED panes
       ELSE /\ Len(panes) < MaxTabs
            /\ panes' = Append(panes, ReferencePane)
            /\ active' = Len(panes) + 1
    /\ status' = StatusFor(editor_files, modified, RefId)
    /\ UNCHANGED <<editor_files, modified, lint_issues, disk,
                   command_output, current_working_dir, directories>>

\* the user changes the text of the active editor to text:
\* on_text_area_changed
on_text_area_changed(text) ==
    /\ active # 0
    /\ ~panes[active].read_only
    /\ text # panes[active].text
    /\ panes' = [panes EXCEPT ![active].text = text]
    /\ LET editor_id == panes[active].editor_id
           issues == LintMarkdown(text)
       IN  IF editor_id \notin Keys(editor_files)
           THEN UNCHANGED <<modified, lint_issues, status>>
           ELSE /\ modified' = Set(modified, editor_id, TRUE)
                /\ lint_issues' = StoreIssues(lint_issues, editor_id, issues)
                /\ status' = LintStatus(StatusFor(editor_files, modified', editor_id),
                                        issues)
    /\ UNCHANGED <<active, editor_files, disk, command_output, current_working_dir, directories>>

OpenFile == \E path \in Paths, ok \in BOOLEAN : open_file(path, ok)

NewFile == create_new_file

Save == \E ok \in BOOLEAN : save_current(ok)

CloseTab == \E next \in 0..MaxTabs : close_current_tab(next)

SwitchTab == \E a \in 1..MaxTabs : on_tabbed_content_tab_activated(a)

ShowReference == action_show_markdown_reference

Edit == \E text \in DocTexts : on_text_area_changed(text)

Next ==
    \/ OpenFile
    \/ NewFile
    \/ Save
    \/ CloseTab
    \/ SwitchTab
    \/ ShowReference
    \/ Edit

Spec == Init /\ [][Next]_vars

(***************************************************************************)
(* The linter on its own: the first change of a new, empty editor puts any *)
(* text of Texts into it, and on_text_area_changed lints that text.        *)
(***************************************************************************)

\* the state after create_new_file() in a fresh application
LintInit ==
    /\ panes = <<ReferencePane, EditorPane(1, <<>>)>>
    /\ active = 2
    /\ editor_files = <<[k |-> 1, v |-> None]>>
    /\ modified = <<TRUE>>
    /\ lint_issues = << <<>> >>
    /\ status = StatusFor(editor_files, modified, 1)
    /\ disk = [p \in {UntitledPath} |-> Join(<< <<"#", " ", "a">>, <<"a">> >>)]
    /\ command_output = <<StartedMessage>>
    /\ current_working_dir = root_path
    /\ directories = Directories

LintEdit ==
    /\ panes[active].text = <<>>
    /\ \E text \in Texts : on_text_area_changed(text)

LintNext == LintEdit

LintSpec == LintInit /\ [][LintNext]_vars

(***************************************************************************)
(* The listing of the stored report in the command output (Ctrl+L).        *)
(* command_output is the list of the messages appended so far; the Rich    *)
(* markup that _highlight_shell_keywords wraps around keywords and tags is *)
(* not modelled.                                                           *)
(***************************************************************************)

\* _append_command_output(message): the message goes on a new line of its own
AppendCommandOutput(out, message) == Append(out, message)

RECURSIVE AppendAll(_, _)
AppendAll(out, messages) ==
    IF messages = <<>> THEN out
    ELSE AppendAll(AppendCommandOutput(out, Head(messages)), Tail(messages))

\* a listing without the cap
ShownIssuesAll(issues) == issues

\* issues[:10]
ShownIssues(issues) ==
    SubSeq(issues, 1, IF Len(issues) < 10 THEN Len(issues) ELSE 10)

\* the line printed for one issue
IssueLine(issue) ==
    [fmt |-> IF issue.type = "error"
             THEN "[error]Line {line_num}: {message}"
             ELSE "[warning]Line {line_num}: {message}",
     line_num |-> issue.line,
     message |-> issue.message]

IssueLines(issues) == [k \in 1..Len(issues) |-> IssueLine(issues[k])]

FoundLine(issues) ==
    [fmt |-> "[lint] Found {len(issues)} issue(s):", len |-> Len(issues)]

\* if len(issues) > 10: the indicator of the issues left out
MoreLine(issues) ==
    IF Len(issues) > 10
    THEN <<[fmt |-> "[lint] ... and {len(issues) - 10} more issue(s)",
            more |-> Len(issues) - 10]>>
    ELSE <<>>

NoIssuesLine == [fmt |-> "[lint] No issues found! (check mark)"]

\* action_show_lint_issues()
action_show_lint_issues ==
    LET editor_id == ActiveEditorId(panes, active)
        issues == IF editor_id \in DOMAIN lint_issues
                  THEN lint_issues[editor_id] ELSE <<>>
    IN  /\ IF editor_id = -1
           THEN /\ status' = [fmt |-> "No file open for linting."]
                /\ UNCHANGED command_output
           ELSE IF issues = <<>>
           THEN /\ command_output' = AppendCommandOutput(command_output, NoIssuesLine)
                /\ status' = [fmt |-> "Lint: No issues found"]
           ELSE /\ command_output' =
                      AppendAll(command_output,
                                <<FoundLine(issues)>>
                                    \o IssueLines(ShownIssues(issues))
                                    \o MoreLine(issues))
                /\ status' = [fmt |-> "Lint: {errors} error(s), {warnings} warning(s) | See command output",
                              errors |-> CountType(issues, "error"),
                              warnings |-> CountType(issues, "warning")]
        /\ UNCHANGED <<panes, active, editor_files, modified, lint_issues, disk,
                       current_working_dir, directories>>

\* the number of listings in the command output
Listings(out) ==
    Cardinality({k \in 1..Len(out) :
        out[k].fmt \in {NoIssuesLine.fmt, "[lint] Found {len(issues)} issue(s):"}})

ShowLintIssues ==
    /\ Listings(command_output) < MaxListings
    /\ action_show_lint_issues

\* the lines of the texts whose reports are listed
ListVocabulary ==
    { <<"a">>,
      <<"#", "#", "#", "#", "#", "#", "#", "!", "[", " ", "]", "(", " ", ")", "|">>,
      <<"!", "[", "]", "(", "a", ")">> }

ListTexts ==
    { Join(BlankLines(k) \o body) :
        k \in 0..MaxPad,
        body \in UNION { [1..n -> ListVocabulary] : n \in 1..MaxBody } }

ListEdit ==
    /\ active # 0
    /\ panes[active].text = <<>>
    /\ \E text \in ListTexts : on_text_area_changed(text)

ListNext ==
    \/ ListEdit
    \/ ShowLintIssues
    \/ SwitchTab
    \/ CloseTab

ListSpec == LintInit /\ [][ListNext]_vars

(***************************************************************************)
(* The linter on every text: the editor of LintInit is given any text of   *)
(* up to MaxChars characters that matter to the rules, and is emptied      *)
(* again; on_text_area_changed lints each of them.                         *)
(***************************************************************************)

\* the characters the rules of the linter look for
Alphabet == {"[", "]", "(", ")", "!", "#", Backquote, NL}

CharTexts == UNION { [1..n -> Alphabet] : n \in 0..MaxChars }

TotalEdit ==
    /\ panes[active].text = <<>>
    /\ \E text \in CharTexts : on_text_area_changed(text)

TotalClear ==
    /\ panes[active].text # <<>>
    /\ on_text_area_changed(<<>>)

TotalNext ==
    \/ TotalEdit
    \/ TotalClear

TotalSpec == LintInit /\ [][TotalNext]_vars

(***************************************************************************)
(* The command terminal.  A command is the tuple of its characters.  What  *)
(* subprocess.run does is an input of the step: whether it raises, what it *)
(* prints, its return code and the directories it leaves behind.           *)
(***************************************************************************)
MaxCommands == 2

CdPrefix == <<"c", "d", " ">>

PromptLine(command) == [fmt |-> "$ {command}", command |-> command]

CwdLine(cwd) == [fmt |-> "[cwd: {self.current_working_dir}]", cwd |-> cwd]

OutsideRootError == [fmt |-> "[error]Cannot change directory outside root path"]

NotFoundError(target_dir) ==
    [fmt |-> "[error]Directory not found: {target_dir}", target_dir |-> target_dir]

\* a test that lets every directory pass
InsideRootAlways(p) == TRUE

\* self.root_path.resolve() in p.parents or p == self.root_path.resolve(),
\* for a resolved path p
InsideRoot(p) == Resolve(root_path) \in Parents(p) \/ p = Resolve(root_path)

\* the cd branch: the new working directory and the error reported, None
\* when the directory is changed
ChangeDirectory(cwd, dirs, target_dir) ==
    IF target_dir = <<>>
    THEN [cwd |-> root_path, error |-> None]
    ELSE IF target_dir = DotDot
    THEN LET parent == Parent(cwd)
         IN  IF /\ Resolve(parent) # Resolve(root_path)
                /\ Resolve(root_path) \in Parents(Resolve(parent))
             THEN [cwd |-> parent, error |-> None]
             ELSE [cwd |-> root_path, error |-> None]
    ELSE LET target_path == Resolve(JoinPath(cwd, target_dir))
         IN  IF IsExistingDir(dirs, target_path)
             THEN IF InsideRoot(Resolve(target_path))
                  THEN [cwd |-> target_path, error |-> None]
                  ELSE [cwd |-> cwd, error |-> OutsideRootError]
             ELSE [cwd |-> cwd, error |-> NotFoundError(target_dir)]

\* what subprocess.run(command, shell=True, cwd=..., timeout=10) can do
Results ==
    {[raised |-> x, stdout |-> FALSE, stderr |-> FALSE, returncode |-> 0,
      directories |-> d] : x \in {"TimeoutExpired", "Exception"},
                           d \in DirectoryTrees}
    \cup {[raised |-> "", stdout |-> o, stderr |-> ~o, returncode |-> IF o THEN 0 ELSE 1,
           directories |-> d] : o \in BOOLEAN, d \in DirectoryTrees}
    \cup {[raised |-> "", stdout |-> FALSE, stderr |-> FALSE, returncode |-> 0,
           directories |-> d] : d \in DirectoryTrees}

\* the messages appended after the prompt for a command that is run
ResultLines(result) ==
    IF result.raised = "TimeoutExpired"
    THEN <<[fmt |-> "[error]Command timed out after 10 seconds"]>>
    ELSE IF result.raised = "Exception"
    THEN <<[fmt |-> "[error]Failed to execute command: {e}"]>>
    ELSE (IF result.stdout THEN <<[fmt |-> "{result.stdout}"]>> ELSE <<>>)
         \o (IF result.stderr THEN <<[fmt |-> "[stderr]\n{result.stderr}"]>> ELSE <<>>)
         \o (IF result.returncode # 0
             THEN <<[fmt |-> "[exit code: {result.returncode}]",
                     returncode |-> result.returncode]>>
             ELSE <<[fmt |-> "[success]"]>>)

\* _execute_shell_command(command)
execute_shell_command(command, result) ==
    LET command_stripped == Strip(command)
    IN  IF command_stripped = <<>>
        THEN UNCHANGED vars
        ELSE IF StartsWith(command_stripped, CdPrefix)
        THEN LET target_dir == Strip(SubSeq(command_stripped, 4, Len(command_stripped)))
                 cd == ChangeDirectory(current_working_dir, directories, target_dir)
             IN  /\ current_working_dir' = cd.cwd
                 /\ command_output' =
                        AppendAll(command_output,
                                  <<PromptLine(command),
                                    IF cd.error = None THEN CwdLine(cd.cwd) ELSE cd.error>>)
                 /\ UNCHANGED <<panes, active, editor_files, modified, lint_issues,
                                 status, disk, directories>>
        ELSE \* a process cannot be started in a directory that is not there
             /\ current_working_dir \notin directories =>
                    result.raised = "Exception" /\ result.directories = directories
             /\ command_output' =
                    AppendAll(command_output, <<PromptLine(command)>> \o ResultLines(result))
             /\ directories' = result.directories
             /\ UNCHANGED <<panes, active, editor_files, modified, lint_issues,
                             status, disk, current_working_dir>>

\* the commands entered so far
Prompts(out) == Cardinality({k \in 1..Len(out) : out[k].fmt = "$ {command}"})

Commands ==
    {<<"c", "d", " ", ".", ".">>,
     <<"c", "d", " ", "a">>,
     <<"c", "d", " ", "b">>,
     <<"c", "d", " ", "a", "/", "b">>,
     <<"c", "d", " ", ".", ".", "/", ".", ".">>,
     <<"c", "d", " ", ".", ".", "/">>,
     <<"c", "d", " ", "/", "o">>,
     <<"c", "d", " ", "/", "r", "/", "a">>,
     <<"c", "d", " ", "l">>,
     <<"c", "d", " ", "f">>,
     <<" ", "c", "d", " ", " ", "a", " ">>,
     <<"c", "d">>,
     <<"l", "s">>,
     <<" ">>}

ExecuteCommand ==
    /\ Prompts(command_output) < MaxCommands
    /\ \E command \in Commands, result \in Results :
           execute_shell_command(command, result)

ShellNext == ExecuteCommand

ShellSpec == Init /\ [][ShellNext]_vars

(***************************************************************************)
(* Properties of the linter, checked under LintSpec.  The conditions are   *)
(* written from the statements, on characters and line numbers, without    *)
(* the operators of the linter above.                                      *)
(***************************************************************************)

\* the lines of the text in the active editor and the report stored for it
DocLines == Split(panes[active].text)

Report == lint_issues[panes[active].editor_id]

\* how often issue x occurs in report R
Occurrences(R, x) == Cardinality({k \in 1..Len(R) : R[k] = x})

\* the issues of report R whose message has the template fmt
WithFmt(R, fmt) == {k \in 1..Len(R) : R[k].message.fmt = fmt}

HeaderFmt == "Consider adding blank line after header at line {i}"
LevelFmt == "Invalid heading level {level} at line {i} (max is 6)"
LinkFmt == "Empty link URL at line {i}: {match.group(0)}"
ImageFmt == "Image without alt text at line {i} (accessibility issue)"
TableFmt == "Table row at line {i} should start with |"
CodeFmt == "Consider adding blank line after code block at line {i}"

BeginsWithHash(l) == Len(l) >= 1 /\ l[1] = "#"

HasVisible(l) == \E k \in 1..Len(l) : l[k] # " "

\* position of the first character that is not a space (only if HasVisible)
FirstVisible(l) == CHOOSE k \in 1..Len(l) : l[k] # " " /\ \A j \in 1..(k - 1) : l[j] = " "

HasBar(l) == \E k \in 1..Len(l) : l[k] = "|"

\* number of '#' characters before the first other character
LeadingHashes(l) ==
    CHOOSE m \in 0..Len(l) :
        /\ \A k \in 1..m : l[k] = "#"
        /\ m = Len(l) \/ l[m + 1] # "#"

\* the trimmed line starts with three backquotes
FenceLine(l) ==
    /\ HasVisible(l)
    /\ FirstVisible(l) + 2 <= Len(l)
    /\ \A d \in 0..2 : l[FirstVisible(l) + d] = Backquote

\* line i of L is a fence that closes a block: the fences up to it come in
\* pairs
ClosingFence(L, i) ==
    /\ FenceLine(L[i])
    /\ Cardinality({k \in 1..i : FenceLine(L[k])}) % 2 = 0

\* C2 - Header-followed-by-content: the report holds the warning "Consider
\* adding blank line after header at line i", at line i+1, exactly when line i
\* starts with '#', is not the last line, and line i+1 is non-blank and does
\* not start with '#'; never twice for one header, and no such warning names
\* anything but a line of the text.
HeaderSpacingRule ==
    LET L == DocLines
        R == Report
    IN
        /\ \A i \in 1..Len(L) :
              Occurrences(R, HeaderSpacingIssue(i)) =
                  IF /\ BeginsWithHash(L[i])
                     /\ i < Len(L)
                     /\ HasVisible(L[i + 1])
                     /\ ~BeginsWithHash(L[i + 1])
                  THEN 1 ELSE 0
        /\ \A k \in WithFmt(R, HeaderFmt) :
              /\ R[k].message.i \in 1..Len(L)
              /\ R[k] = HeaderSpacingIssue(R[k].message.i)

\* a header followed by text got its warning, and a header followed by a
\* header got none
HeaderSpacingWitness ==
    LET L == DocLines
        R == Report
    IN
        /\ \E i \in 1..Len(L) : Occurrences(R, HeaderSpacingIssue(i)) = 1
        /\ \E i \in 1..(Len(L) - 1) :
              /\ BeginsWithHash(L[i])
              /\ BeginsWithHash(L[i + 1])
              /\ Occurrences(R, HeaderSpacingIssue(i)) = 0

\* C3 - Code-block-followed-by-content: the report holds the warning
\* "Consider adding blank line after code block at line i", at line i+1,
\* exactly when line i is a closing fence, is not the last line, and line i+1
\* is non-blank; opening fences and an unterminated fence give none.
CodeBlockRule ==
    LET L == DocLines
        R == Report
    IN
        /\ \A i \in 1..Len(L) :
              Occurrences(R, CodeBlockSpacingIssue(i)) =
                  IF /\ ClosingFence(L, i)
                     /\ i < Len(L)
                     /\ HasVisible(L[i + 1])
                  THEN 1 ELSE 0
        /\ \A k \in WithFmt(R, CodeFmt) :
              /\ R[k].message.i \in 1..Len(L)
              /\ R[k] = CodeBlockSpacingIssue(R[k].message.i)

\* an opening fence followed by text, then a closing fence followed by text:
\* only the closing fence is reported
CodeBlockWitness ==
    LET L == DocLines
        R == Report
    IN
        \E i \in 2..(Len(L) - 1), o \in 1..Len(L) :
            /\ o < i
            /\ FenceLine(L[o])
            /\ ~ClosingFence(L, o)
            /\ HasVisible(L[o + 1])
            /\ ClosingFence(L, i)
            /\ Occurrences(R, CodeBlockSpacingIssue(i)) = 1
            /\ Occurrences(R, CodeBlockSpacingIssue(o)) = 0

\* C4 - Invalid heading depth: the report holds the error "Invalid heading
\* level L at line i (max is 6)", at line i, exactly when line i starts with
\* '#', i > 3 and the number L of its leading '#' is more than 6; headers in
\* lines 1..3 and headers of depth 1..6 never give it.
HeadingDepthRule ==
    LET L == DocLines
        R == Report
    IN
        /\ \A i \in 1..Len(L) :
              Occurrences(R, HeadingLevelIssue(LeadingHashes(L[i]), i)) =
                  IF /\ BeginsWithHash(L[i])
                     /\ i > 3
                     /\ LeadingHashes(L[i]) > 6
                  THEN 1 ELSE 0
        /\ \A k \in WithFmt(R, LevelFmt) :
              /\ R[k].message.i \in 4..Len(L)
              /\ R[k].message.level > 6
              /\ R[k] = HeadingLevelIssue(LeadingHashes(L[R[k].message.i]),
                                               R[k].message.i)

\* a header of depth 7 below line 3 is the one reported, in a text that also
\* has a header of depth 7 in its first three lines and one of depth 6 below
HeadingDepthWitness ==
    LET L == DocLines
        R == Report
    IN
        \E e \in 1..3, i, j \in 4..Len(L) :
            /\ LeadingHashes(L[e]) = 7
            /\ LeadingHashes(L[i]) = 7
            /\ LeadingHashes(L[j]) = 6
            /\ Occurrences(R, HeadingLevelIssue(7, i)) = 1
            /\ Cardinality(WithFmt(R, LevelFmt)) = 1

\* the image ![alt](src) that starts at position s of line l: '!', '[', alt up
\* to the first ']', '(', then src, of at least one character, up to the
\* first ')'.  Images are taken left to right and do not overlap.
ImageCloseBracket(l, s) ==
    CHOOSE j \in (s + 2)..Len(l) : l[j] = "]" /\ \A h \in (s + 2)..(j - 1) : l[h] # "]"

ImageAt(l, s) ==
    /\ s + 1 <= Len(l)
    /\ l[s] = "!"
    /\ l[s + 1] = "["
    /\ \E j \in (s + 2)..Len(l) : l[j] = "]"
    /\ LET j == ImageCloseBracket(l, s)
       IN  /\ j + 2 <= Len(l)
           /\ l[j + 1] = "("
           /\ l[j + 2] # ")"
           /\ \E k \in (j + 3)..Len(l) : l[k] = ")"

\* the images of line l whose alt is empty after trimming
BlankAltImages(l) ==
    {s \in 1..Len(l) :
        /\ ImageAt(l, s)
        /\ \A h \in (s + 2)..(ImageCloseBracket(l, s) - 1) : l[h] = " "}

\* C5 - Image missing alt text: for every line N the report holds as many
\* warnings "Image without alt text at line N (accessibility issue)" as line N
\* has images whose alt is empty after trimming; the text "![](a)" gives that
\* one warning and nothing else, the text "![a](a)" gives no issue.
ImageAltRule ==
    LET L == DocLines
        R == Report
    IN
        /\ \A N \in 1..Len(L) :
              Occurrences(R, ImageAltIssue(N)) = Cardinality(BlankAltImages(L[N]))
        /\ \A k \in WithFmt(R, ImageFmt) :
              /\ R[k].message.i \in 1..Len(L)
              /\ R[k] = ImageAltIssue(R[k].message.i)
        /\ L = << <<"!", "[", "]", "(", "a", ")">> >> => R = <<ImageAltIssue(1)>>
        /\ L = << <<"!", "[", "a", "]", "(", "a", ")">> >> => R = <<>>

\* an image with an empty alt, one with a blank alt and one with an alt, on
\* three lines: the first two are reported
ImageAltWitness ==
    LET L == DocLines
        R == Report
    IN
        \E N, M, K \in 1..Len(L) :
            /\ L[N] = <<"!", "[", "]", "(", "a", ")">>
            /\ Occurrences(R, ImageAltIssue(N)) = 1
            /\ \E s \in BlankAltImages(L[M]) : L[M][s + 2] = " "
            /\ Occurrences(R, ImageAltIssue(M)) = 1
            /\ L[K] = <<"!", "[", "a", "]", "(", "a", ")">>
            /\ Occurrences(R, ImageAltIssue(K)) = 0

\* C6 - Malformed table row: the report holds the warning "Table row at line
\* i should start with |", at line i, exactly when i > 1, line i contains
\* '|', its trimmed content does not start with '|', and line i-1 contains
\* '|'; the first line never gives it.
TableRowRule ==
    LET L == DocLines
        R == Report
    IN
        /\ \A i \in 1..Len(L) :
              Occurrences(R, TableRowIssue(i)) =
                  IF /\ i > 1
                     /\ HasBar(L[i])
                     /\ L[i][FirstVisible(L[i])] # "|"
                     /\ HasBar(L[i - 1])
                  THEN 1 ELSE 0
        /\ \A k \in WithFmt(R, TableFmt) :
              /\ R[k].message.i \in 2..Len(L)
              /\ R[k] = TableRowIssue(R[k].message.i)

\* three rows: the first, not starting with '|', is exempt; the second is
\* reported; the third starts with '|' after trimming and is not
TableRowWitness ==
    LET L == DocLines
        R == Report
    IN
        /\ Len(L) = 3
        /\ HasBar(L[1]) /\ L[1][1] # "|"
        /\ Occurrences(R, TableRowIssue(1)) = 0
        /\ Occurrences(R, TableRowIssue(2)) = 1
        /\ L[3] = <<" ", "|", "a">>
        /\ Occurrences(R, TableRowIssue(3)) = 0

\* the link [text](url) that starts at position s of line l: '[', a text of
\* at least one character up to the first ']', '(', then url, possibly of no
\* character at all, up to the first ')'
LinkCloseBracket(l, s) ==
    CHOOSE j \in (s + 1)..Len(l) : l[j] = "]" /\ \A h \in (s + 1)..(j - 1) : l[h] # "]"

LinkCloseParen(l, s) ==
    CHOOSE k \in (LinkCloseBracket(l, s) + 2)..Len(l) :
        /\ l[k] = ")"
        /\ \A h \in (LinkCloseBracket(l, s) + 2)..(k - 1) : l[h] # ")"

LinkAt(l, s) ==
    /\ l[s] = "["
    /\ \E j \in (s + 1)..Len(l) : l[j] = "]"
    /\ LET j == LinkCloseBracket(l, s)
       IN  /\ j >= s + 2
           /\ j + 1 <= Len(l)
           /\ l[j + 1] = "("
           /\ \E k \in (j + 2)..Len(l) : l[k] = ")"

\* the links of line l whose url is empty after trimming
EmptyUrlLinks(l) ==
    {s \in 1..Len(l) :
        /\ LinkAt(l, s)
        /\ \A h \in (LinkCloseBracket(l, s) + 2)..(LinkCloseParen(l, s) - 1) : l[h] = " "}

\* C1 - Empty link target: every link of line N whose url is empty after
\* trimming, a url of no character included, gives exactly one error "Empty
\* link URL at line N: <the link>", and the report holds no other such error.
EmptyLinkClaim ==
    LET L == DocLines
        R == Report
    IN
        \A N \in 1..Len(L) :
            /\ \A s \in EmptyUrlLinks(L[N]) :
                  Occurrences(R, EmptyLinkIssue(N,
                      SubSeq(L[N], s, LinkCloseParen(L[N], s)))) = 1
            /\ Cardinality({k \in WithFmt(R, LinkFmt) : R[k].message.i = N})
                   = Cardinality(EmptyUrlLinks(L[N]))

\* the rule that found issue x, and the line that triggered it (the line
\* its message names)
RuleOf(x) ==
    CASE x.message.fmt = HeaderFmt -> 1
      [] x.message.fmt = LevelFmt -> 2
      [] x.message.fmt = LinkFmt -> 3
      [] x.message.fmt = ImageFmt -> 4
      [] x.message.fmt = TableFmt -> 5
      [] x.message.fmt = CodeFmt -> 6

TriggerOf(x) == x.message.i

\* C9 - Report ordering: the findings of rules 1-5 precede those of rule 6;
\* among the findings of rules 1-5 one triggered by an earlier line precedes
\* one triggered by a later line, and those of one line are in rule order.
ReportOrdering ==
    LET L == DocLines
        R == Report
    IN
        \A a, b \in 1..Len(R) :
            a < b =>
                /\ RuleOf(R[a]) = 6 => RuleOf(R[b]) = 6
                /\ RuleOf(R[b]) <= 5 =>
                      \/ TriggerOf(R[a]) < TriggerOf(R[b])
                      \/ TriggerOf(R[a]) = TriggerOf(R[b]) /\ RuleOf(R[a]) <= RuleOf(R[b])

\* three rules fire on one line, in rule order, and the code-block warning
\* triggered by the line before it comes after them
ReportOrderingWitness ==
    LET L == DocLines
        R == Report
    IN
        \E a \in 1..Len(R) :
            /\ a + 3 <= Len(R)
            /\ \A r \in 0..2 : RuleOf(R[a + r]) = 2 + r /\ TriggerOf(R[a + r]) = TriggerOf(R[a])
            /\ RuleOf(R[a + 3]) = 6
            /\ TriggerOf(R[a + 3]) < TriggerOf(R[a])

\* C10 as stated - within the findings of rules 1-5, and within those of rule
\* 6, the reported line numbers never decrease.
LineOrderClaim ==
    LET L == DocLines
        R == Report
    IN
        \A a, b \in 1..Len(R) :
            a < b /\ (RuleOf(R[a]) = 6 <=> RuleOf(R[b]) = 6) => R[a].line <= R[b].line

\* C10 amended - within the findings of rule 6 the reported line numbers
\* never decrease; within those of rules 1-5 they never decrease either,
\* except that the header-spacing warning of a header line i, reported at
\* line i+1, precedes the other findings of line i, reported at line i.
LineOrderAmended ==
    LET L == DocLines
        R == Report
    IN
        \A a, b \in 1..Len(R) :
            a < b /\ (RuleOf(R[a]) = 6 <=> RuleOf(R[b]) = 6) =>
                \/ R[a].line <= R[b].line
                \/ /\ RuleOf(R[a]) = 1
                   /\ RuleOf(R[b]) \in 2..5
                   /\ TriggerOf(R[b]) = TriggerOf(R[a])
                   /\ R[b].line = TriggerOf(R[a])
                   /\ R[a].line = TriggerOf(R[a]) + 1

\* a header-spacing warning is followed by a finding of its own header line,
\* and a finding of a later line follows both
LineOrderWitness ==
    LET L == DocLines
        R == Report
    IN
        \E a, b, c \in 1..Len(R) :
            /\ a < b /\ b < c
            /\ RuleOf(R[a]) = 1
            /\ RuleOf(R[b]) \in 2..5
            /\ R[b].line < R[a].line
            /\ RuleOf(R[c]) <= 5
            /\ R[c].line > R[b].line

(***************************************************************************)
(* Properties of the stored reports, checked under Spec.                   *)
(***************************************************************************)

\* C7 - Stored reports are never stale: for every open editor whose id has a
\* stored report, that report is the lint findings of the editor's current
\* text.
ReportsNeverStale ==
    \A j \in 1..Len(panes) :
        panes[j].editor_id \in DOMAIN lint_issues =>
            lint_issues[panes[j].editor_id] = LintMarkdown(panes[j].text)

\* C8 - Report replacement: a lint run for document id d on text t leaves
\* exactly the findings of t stored for d, whatever was stored for d before.
\* The lint runs are those of on_text_area_changed, for an editor the
\* application tracks, and of create_new_file.
ReportReplaced ==
    [][/\ \A t \in DocTexts :
             on_text_area_changed(t) /\ panes[active].editor_id \in Keys(editor_files)
                 => lint_issues'[panes[active].editor_id] = LintMarkdown(t)
       /\ create_new_file
             => lint_issues'[Len(editor_files) + 1] = LintMarkdown(<<>>)]_vars

\* an editor that had the empty report of a new file holds, after an edit,
\* the one warning of its text, and the status bar shows the lint summary
ReportReplacedWitness ==
    /\ active # 0
    /\ ~panes[active].read_only
    /\ Get(editor_files, panes[active].editor_id) = None
    /\ panes[active].text = Join(<< <<"#", " ", "a">>, <<"a">> >>)
    /\ panes[active].editor_id \in DOMAIN lint_issues
    /\ lint_issues[panes[active].editor_id] = <<HeaderSpacingIssue(1)>>
    /\ status.fmt = "Lint: {warnings} warning(s) | Press Ctrl+L for details"

(***************************************************************************)
(* Further properties of the linter, checked under LintSpec.               *)
(***************************************************************************)

\* C11 - Line-number bounds: for a text of n lines every issue of the report
\* has a line number within 1..n+1, and no header-spacing or code-block
\* warning is triggered by line n, the final line.
LineNumberBounds ==
    LET L == DocLines
        R == Report
    IN
        /\ \A k \in 1..Len(R) : R[k].line \in 1..(Len(L) + 1)
        /\ \A k \in 1..Len(R) :
              R[k].message.fmt \in {HeaderFmt, CodeFmt} => R[k].message.i # Len(L)

\* the final line closes a code block and gets no warning, while the header
\* on the line before it is reported at the final line
LineNumberBoundsWitness ==
    LET L == DocLines
        R == Report
    IN
        /\ Len(L) >= 2
        /\ ClosingFence(L, Len(L))
        /\ BeginsWithHash(L[Len(L) - 1])
        /\ \E k \in 1..Len(R) :
              R[k].message.fmt = HeaderFmt /\ R[k].line = Len(L)
        /\ \A k \in 1..Len(R) : R[k].message.fmt # CodeFmt

\* the number of issues of report R with severity type
Severity(R, type) == Cardinality({k \in 1..Len(R) : R[k].type = type})

\* C15 as stated - every issue has severity 'error' or 'warning', and after
\* the lint run of a text with a non-empty report the status bar states the
\* number of errors and the number of warnings of that report, which add up
\* to its length.
SeveritySummaryClaim ==
    LET R == Report
    IN  /\ \A k \in 1..Len(R) : R[k].type \in {"error", "warning"}
        /\ R # <<>> =>
              /\ "errors" \in DOMAIN status
              /\ "warnings" \in DOMAIN status
              /\ status.errors = Severity(R, "error")
              /\ status.warnings = Severity(R, "warning")
              /\ status.errors + status.warnings = Len(R)

\* C15 amended - every issue has severity 'error' or 'warning', the errors
\* and the warnings of a report add up to its length, and after the lint run
\* of a text with a non-empty report the status bar states the number of
\* warnings of that report, and the number of its errors when there is at
\* least one; a report without errors gives a summary of the warnings only.
SeveritySummary ==
    LET R == Report
    IN  /\ \A k \in 1..Len(R) : R[k].type \in {"error", "warning"}
        /\ Severity(R, "error") + Severity(R, "warning") = Len(R)
        /\ R # <<>> =>
              /\ "warnings" \in DOMAIN status
              /\ status.warnings = Severity(R, "warning")
              /\ IF Severity(R, "error") > 0
                 THEN /\ "errors" \in DOMAIN status
                      /\ status.errors = Severity(R, "error")
                      /\ status.fmt = "Lint: {errors} error(s), {warnings} warning(s) | Press Ctrl+L for details"
                 ELSE /\ "errors" \notin DOMAIN status
                      /\ status.fmt = "Lint: {warnings} warning(s) | Press Ctrl+L for details"

\* a report with two errors or more and two warnings or more, and the status
\* bar states both numbers
SeveritySummaryWitness ==
    LET R == Report
    IN  /\ Severity(R, "error") >= 2
        /\ Severity(R, "warning") >= 2
        /\ Severity(R, "error") # Severity(R, "warning")
        /\ "errors" \in DOMAIN status
        /\ status.errors = Severity(R, "error")
        /\ status.warnings = Severity(R, "warning")

(***************************************************************************)
(* Further properties of the stored reports and of the bookkeeping,        *)
(* checked under Spec.                                                     *)
(***************************************************************************)

\* editor id x belongs to exactly one open pane, is tracked, and its modified
\* flag is set: its text was linted by create_new_file or by
\* on_text_area_changed and has not changed, been loaded or been saved since
LintedLast(x) ==
    /\ Cardinality({j \in 1..Len(panes) : panes[j].editor_id = x}) = 1
    /\ x \in Keys(editor_files)
    /\ x \in DOMAIN modified
    /\ modified[x]
    /\ x \in DOMAIN lint_issues

\* C12 - Determinism: two lint runs on the same text leave identical reports
\* (same issues, same order), whatever the document ids, the reports stored
\* before and the other open documents: any two open editors with different
\* ids that were linted last on equal texts have equal stored reports.
LintDeterministic ==
    \A i, j \in 1..Len(panes) :
        /\ panes[i].editor_id # panes[j].editor_id
        /\ LintedLast(panes[i].editor_id)
        /\ LintedLast(panes[j].editor_id)
        /\ panes[i].text = panes[j].text
        => lint_issues[panes[i].editor_id] = lint_issues[panes[j].editor_id]

\* two editors with different ids hold the same text with a header followed
\* by content, and each has the one warning stored
LintDeterministicWitness ==
    \E i, j \in 1..Len(panes) :
        /\ panes[i].editor_id # panes[j].editor_id
        /\ LintedLast(panes[i].editor_id)
        /\ LintedLast(panes[j].editor_id)
        /\ panes[i].text = panes[j].text
        /\ panes[i].text # <<>>
        /\ lint_issues[panes[i].editor_id] = <<HeaderSpacingIssue(1)>>
        /\ lint_issues[panes[j].editor_id] = <<HeaderSpacingIssue(1)>>

\* the reports of the texts of DocTexts
DocReports == {LintMarkdown(t) : t \in DocTexts}

\* C14 - Lint leaves everything else unchanged: the lint run that
\* on_text_area_changed makes for the tracked editor d on its new text t
\* stores a report for d and changes no report of another id; the text it
\* was given, the other panes and the editor-to-file map are unchanged, and
\* the modified map differs only by the handler's own modified[d] = True.
\* The lint run of create_new_file for the new id changes no report of
\* another id either.  A lint run for another id d2 gives the same reports
\* whether it comes after this lint run or before it.
LintFrame ==
    [][/\ \A t \in DocTexts :
             on_text_area_changed(t) /\ panes[active].editor_id \in Keys(editor_files)
                 => LET d == panes[active].editor_id
                    IN  /\ DOMAIN lint_issues' = DOMAIN lint_issues \cup {d}
                        /\ \A x \in DOMAIN lint_issues \ {d} :
                              lint_issues'[x] = lint_issues[x]
                        /\ Len(panes') = Len(panes)
                        /\ panes'[active].text = t
                        /\ \A j \in 1..Len(panes) : j # active => panes'[j] = panes[j]
                        /\ editor_files' = editor_files
                        /\ DOMAIN modified' = DOMAIN modified \cup {d}
                        /\ \A x \in DOMAIN modified \ {d} : modified'[x] = modified[x]
                        /\ \A d2 \in (1..MaxTabs) \ {d}, r2 \in DocReports :
                              StoreIssues(lint_issues', d2, r2)
                              = StoreIssues(StoreIssues(lint_issues, d2, r2),
                                            d, lint_issues'[d])
       /\ create_new_file
             => /\ DOMAIN lint_issues' = DOMAIN lint_issues \cup {Len(editor_files) + 1}
                /\ \A x \in DOMAIN lint_issues \ {Len(editor_files) + 1} :
                      lint_issues'[x] = lint_issues[x]
                /\ \A j \in 1..Len(panes) : panes'[j] = panes[j]]_vars

\* two editors with different ids were linted last on different texts: one
\* holds the warning of its text, the other the empty report of its own
LintFrameWitness ==
    \E i, j \in 1..Len(panes) :
        /\ panes[i].editor_id # panes[j].editor_id
        /\ LintedLast(panes[i].editor_id)
        /\ LintedLast(panes[j].editor_id)
        /\ panes[i].text # <<>>
        /\ panes[j].text = <<>>
        /\ lint_issues[panes[i].editor_id] = <<HeaderSpacingIssue(1)>>
        /\ lint_issues[panes[j].editor_id] = <<>>

\* C17 - Editor id uniqueness: no two open panes have the same pane id, and
\* no two open editors the same editor id.
EditorIdsUnique ==
    \A i, j \in 1..Len(panes) :
        i # j => /\ panes[i].editor_id # panes[j].editor_id
                 /\ panes[i].pane_id # panes[j].pane_id

\* C18 - One editor per file: no two open editors with different ids are
\* associated with the same file path.
OneEditorPerFile ==
    \A i, j \in 1..Len(panes) :
        LET a == panes[i].editor_id
            b == panes[j].editor_id
        IN  /\ a # b
            /\ Get(editor_files, a) # None
            /\ Get(editor_files, b) # None
            => Get(editor_files, a) # Get(editor_files, b)

\* C19 - Failed save changes no bookkeeping: a save of the active editor
\* whose write fails leaves the editor-to-file map and the modified map as
\* they were, and a save sets the modified flag to false only when its write
\* succeeds.
FailedSaveKeepsBookkeeping ==
    [][/\ save_current(FALSE) =>
             /\ editor_files' = editor_files
             /\ modified' = modified
       /\ save_current(TRUE) /\ active # 0 =>
             modified'[panes[active].editor_id] = FALSE]_vars

(***************************************************************************)
(* Properties of the listing, checked under ListSpec.                      *)
(***************************************************************************)

\* C16 - Issue listing cap: listing the stored report of the active editor,
\* of k issues, appends to the command output, for k = 0 or no stored report,
\* the no-issues message alone; otherwise the count line, then exactly
\* min(k, 10) issue lines, which are the first min(k, 10) issues of the
\* report in its order, and after them the line "... and k-10 more
\* issue(s)" exactly when k > 10.
IssueListingCap ==
    [][action_show_lint_issues /\ active # 0 =>
          LET d == panes[active].editor_id
              R == IF d \in DOMAIN lint_issues THEN lint_issues[d] ELSE <<>>
              k == Len(R)
              shown == IF k < 10 THEN k ELSE 10
              old == Len(command_output)
              new == SubSeq(command_output', old + 1, Len(command_output'))
          IN  /\ SubSeq(command_output', 1, old) = command_output
              /\ IF k = 0
                 THEN new = <<[fmt |-> "[lint] No issues found! (check mark)"]>>
                 ELSE /\ Len(new) = 1 + shown + (IF k > 10 THEN 1 ELSE 0)
                      /\ new[1] = [fmt |-> "[lint] Found {len(issues)} issue(s):",
                                   len |-> k]
                      /\ \A j \in 1..shown :
                            /\ new[1 + j].fmt =
                                  (IF R[j].type = "error"
                                   THEN "[error]Line {line_num}: {message}"
                                   ELSE "[warning]Line {line_num}: {message}")
                            /\ new[1 + j].line_num = R[j].line
                            /\ new[1 + j].message = R[j].message
                      /\ k > 10 =>
                            new[Len(new)] =
                                [fmt |-> "[lint] ... and {len(issues) - 10} more issue(s)",
                                 more |-> k - 10]]_vars

\* the command output holds the listing of a report of 11 issues: the count
\* line, 10 issue lines and the line for the 1 issue left out
IssueListingCapWitness ==
    \E p \in 1..Len(command_output) :
        /\ command_output[p].fmt = "[lint] Found {len(issues)} issue(s):"
        /\ command_output[p].len = 11
        /\ Len(command_output) = p + 11
        /\ \A j \in 1..10 : "line_num" \in DOMAIN command_output[p + j]
        /\ command_output[p + 11].fmt = "[lint] ... and {len(issues) - 10} more issue(s)"
        /\ command_output[p + 11].more = 1

(***************************************************************************)
(* Properties of the linter on every text, checked under TotalSpec.        *)
(***************************************************************************)

\* R is a list of issues: each has a line number from 1 on, a severity and a
\* message
IsReport(R) ==
    /\ DOMAIN R = 1..Len(R)
    /\ \A k \in 1..Len(R) :
          /\ DOMAIN R[k] = {"line", "type", "message"}
          /\ R[k].line \in Nat \ {0}
          /\ R[k].type \in {"error", "warning"}
          /\ "fmt" \in DOMAIN R[k].message

\* the lines of text s that start, after their leading spaces, with a fence
FenceLines(s) == {k \in 1..Len(Split(s)) : FenceLine(Split(s)[k])}

\* C13 - Totality: the lint run of any text leaves a (possibly empty) list of
\* issues stored for the editor, and the lint run of the empty text leaves
\* the empty list; from the empty editor, the linter yields such a list for
\* every text that can be typed.
LintTotal ==
    LET d == panes[active].editor_id
    IN  /\ d \in DOMAIN lint_issues
        /\ IsReport(lint_issues[d])
        /\ panes[active].text = <<>> =>
              /\ lint_issues[d] = <<>>
              /\ \A t \in CharTexts : IsReport(LintMarkdown(t))

\* a text with a code fence that is never closed and with a '[' that has no
\* ']' was linted and has its report stored
LintTotalWitness ==
    LET t == panes[active].text
    IN  /\ Cardinality(FenceLines(t)) = 1
        /\ \E k \in 1..Len(t) : t[k] = "["
        /\ \A k \in 1..Len(t) : t[k] # "]"
        /\ panes[active].editor_id \in DOMAIN lint_issues
        /\ IsReport(lint_issues[panes[active].editor_id])

(***************************************************************************)
(* Properties of the command terminal, checked under ShellSpec.  They are  *)
(* written on the paths themselves: where the argument of a cd leads from  *)
(* the working directory, and whether that place is there and is the root  *)
(* path or below it.                                                       *)
(***************************************************************************)
\* p is root or below it
AtOrBelow(root, p) == Len(p) >= Len(root) /\ SubSeq(p, 1, Len(root)) = root

\* the working directory, with its links followed, is the root path or below
Confined == AtOrBelow(Resolve(root_path), Resolve(current_working_dir))

IsCd(command) == StartsWith(Strip(command), CdPrefix)

CdArgument(command) == Strip(SubSeq(Strip(command), 4, Len(Strip(command))))

\* this step is the cd command, which runs no process
CdStep(command) ==
    /\ IsCd(command)
    /\ Len(command_output') > Len(command_output)
    /\ command_output'[Len(command_output) + 1] = PromptLine(command)
    /\ execute_shell_command(command, CHOOSE result \in Results : TRUE)

\* where the argument leads from the working directory
CdTarget(arg) == Resolve(JoinPath(current_working_dir, arg))

\* not a directory that exists, or a directory outside the root
Rejectable(p) == p \notin directories \/ ~AtOrBelow(Resolve(root_path), p)

\* the last message of the output is an error of cd
ErrorReported(out) ==
    out[Len(out)].fmt \in {"[error]Cannot change directory outside root path",
                           "[error]Directory not found: {target_dir}"}

\* C20 - Working directory confinement: after any sequence of commands the
\* tracked working directory is the root path or a directory below it, and
\* every cd (cd .. included) to a missing directory or to a directory
\* outside the root leaves the working directory unchanged and reports an
\* error.
WorkingDirectoryConfinementClaim ==
    /\ []Confined
    /\ [][\A command \in Commands :
             CdStep(command) /\ Rejectable(CdTarget(CdArgument(command))) =>
                 /\ current_working_dir' = current_working_dir
                 /\ ErrorReported(command_output')]_vars

\* C20 - Working directory confinement, as the code has it: after any
\* sequence of commands the tracked working directory is the root path or
\* below it; a cd with an argument other than ".." to a missing directory
\* or to a directory outside the root leaves the working directory
\* unchanged and reports an error; "cd .." reports no error: it goes to the
\* parent when that is the root path or below it, whether or not the
\* directory is still there, and to the root path otherwise.
WorkingDirectoryConfinement ==
    /\ []Confined
    /\ [][\A command \in Commands :
             CdStep(command) =>
                 LET arg == CdArgument(command)
                     target == CdTarget(arg)
                 IN  IF arg = DotDot
                     THEN /\ ~ErrorReported(command_output')
                          /\ current_working_dir' =
                                 IF AtOrBelow(Resolve(root_path), target)
                                 THEN target
                                 ELSE root_path
                     ELSE Rejectable(target) =>
                              /\ current_working_dir' = current_working_dir
                              /\ ErrorReported(command_output')]_vars

\* "cd .." at the root path was answered with the root path, and the
\* "cd /o" after it was rejected
WorkingDirectoryConfinementWitness ==
    /\ current_working_dir = root_path
    /\ command_output =
           <<StartedMessage,
             PromptLine(<<"c", "d", " ", ".", ".">>),
             CwdLine(root_path),
             PromptLine(<<"c", "d", " ", "/", "o">>),
             OutsideRootError>>

====
